---- MODULE Spec2Model ----
(***************************************************************************)
(* A model of eimzo.py: the E-IMZO gateway views (PkcsVerify,              *)
(* SavePkcsView) and the module-level EimzoServiceApi client they call.    *)
(*                                                                         *)
(* Python values are tagged records [t |-> type, v |-> payload]; a str is  *)
(* a TLA+ string, a dict a set of <<key, value>> pairs.  One inbound       *)
(* request is one process; a blocking requests.get / requests.post is the  *)
(* only place where a handler waits, so a handler is cut there: one action *)
(* runs it up to the outbound call, the next one from the authority's      *)
(* answer to the following call or to the handler's end.                   *)
(***************************************************************************)
EXTENDS Integers, Sequences, FiniteSets, TLC

VARIABLES
    api,        \* the module-level eimzo_service_api object (its four URLs)
    authority,  \* the answers the e-imzo server may give: {[status_code, text]}
    req,        \* req[r]: the inbound request r (view, META, data)
    pc,         \* pc[r]: where the handler of r stands
    calls,      \* calls[r]: the requests.get / requests.post calls made for r
    stages,     \* stages[r]: the stage methods that returned or raised for r
    outcome     \* outcome[r]: what the view's post returned or raised

vars == <<api, authority, req, pc, calls, stages, outcome>>

----------------------------------------------------------------------------
(* Bounds *)

\* the number of inbound requests handled at the same time (SpecConc)
NumRequests == 2
\* the longest signature fragment a compose request carries
MaxFragLen == 1

----------------------------------------------------------------------------
(* Python values *)

Str(s) == [t |-> "str", v |-> s]
None == [t |-> "NoneType", v |-> "None"]
False == [t |-> "bool", v |-> "False"]
\* an int is kept as its decimal text, which is also what str(n) gives
PyInt(n) == [t |-> "int", v |-> ToString(n)]
Zero == PyInt(0)
Dict(pairs) == [t |-> "dict", v |-> pairs]
Response(data, status) == [t |-> "Response", v |-> [data |-> data, status |-> status]]

\* bool(x): what `if x:` tests
Truthy(x) ==
    CASE x.t = "str" -> x.v # ""
      [] x.t = "NoneType" -> FALSE
      [] x.t = "bool" -> x.v = "True"
      [] x.t = "int" -> x.v # "0"
      [] x.t = "dict" -> x.v # {}
      [] OTHER -> TRUE

\* format(x, ""): what an f-string field {x} expands to
Format(x) == x.v

HasKey(d, k) == \E p \in d.v : p[1] = k
\* d.get(k, default)
Get(d, k, default) ==
    IF HasKey(d, k) THEN (CHOOSE p \in d.v : p[1] = k)[2] ELSE default

\* what a call returned, or the exception it raised
Return(val) == [k |-> "return", v |-> val]
Raise(exc, detail, code) ==
    [k |-> "raise", v |-> [exc |-> exc, detail |-> detail, code |-> code]]

----------------------------------------------------------------------------
(* EimzoServiceApi *)

VERIFY_URL == "http://e-imzo-server:8080/backend/pkcs7/verify"
JOIN_URL == "http://e-imzo-server:8080/frontend/pkcs7/join"
TIME_STAMP_URL == "http://e-imzo-server:8080/frontend/timestamp/pkcs7"
CHALLENGE_URL == "http://e-imzo-server:8080/frontend/challenge"

EimzoServiceApi ==
    [VERIFY_URL |-> VERIFY_URL, JOIN_URL |-> JOIN_URL,
     TIME_STAMP_URL |-> TIME_STAMP_URL, CHALLENGE_URL |-> CHALLENGE_URL]

\* request.META.get(key), request.environ.get(key): None when the key is absent
MetaGet(request, key) == Get(request.META, key, None)
EnvironGet(request, key) == Get(request.environ, key, None)

\* variant: the peer address is preferred
get_user_ip_peer_first(request) ==
    LET x_real_ip == MetaGet(request, "HTTP_X_REAL_IP")
        remote_addr == MetaGet(request, "REMOTE_ADDR")
    IN  IF Truthy(remote_addr) THEN remote_addr
        ELSE IF Truthy(x_real_ip) THEN x_real_ip
        ELSE Str("Unknown")

get_user_ip(request) ==
    LET x_real_ip == MetaGet(request, "HTTP_X_REAL_IP")
        remote_addr == MetaGet(request, "REMOTE_ADDR")
    IN  IF Truthy(x_real_ip) THEN x_real_ip
        ELSE IF Truthy(remote_addr) THEN remote_addr
        ELSE Str("Unknown")

\* variant: X-Real-IP is the peer address
get_headers_peer_ip(request) ==
    ("Host" :> EnvironGet(request, "HTTP_HOST"))
        @@ ("X-Real-IP" :> MetaGet(request, "REMOTE_ADDR"))

get_headers(request) ==
    ("Host" :> EnvironGet(request, "HTTP_HOST"))
        @@ ("X-Real-IP" :> get_user_ip(request))

\* the arguments of the one requests.get / requests.post a method makes
HttpCall(method, url, headers, data) ==
    [method |-> method, url |-> url, headers |-> headers, data |-> data]

eimzo_challenge(self, request) ==
    HttpCall("GET", self.CHALLENGE_URL, get_headers(request), None)

Api_timestamp_pkcs7(self, pkcs7, request) ==
    HttpCall("POST", self.TIME_STAMP_URL, get_headers(request), pkcs7)

Api_eimzo_verify(self, pkcs7wtst, request) ==
    HttpCall("POST", self.VERIFY_URL \o "/attached", get_headers(request), pkcs7wtst)

\* variant: the fragments are joined in the other order
Api_pkcs7_join_swapped(self, pkcs7_data_1, pkcs7_data_2, request) ==
    HttpCall("POST", self.JOIN_URL, get_headers(request),
             Str(Format(pkcs7_data_2) \o "|" \o Format(pkcs7_data_1)))

Api_pkcs7_join(self, pkcs7_data_1, pkcs7_data_2, request) ==
    HttpCall("POST", self.JOIN_URL, get_headers(request),
             Str(Format(pkcs7_data_1) \o "|" \o Format(pkcs7_data_2)))

----------------------------------------------------------------------------
(* The e-imzo server's answers *)

\* res.status_code of the answers the server gives
StatusCodes == {200, 400, 500}

\* res.text of the answers the server gives
Bodies ==
    { "{\"pkcs7b64\":\"XYZ\"}", "{}", "{\"pkcs7b64\":false}", "{\"pkcs7b64\":null}",
      "{\"pkcs7b64\":\"\"}", "{\"pkcs7b64\":0}", "<html>Bad Gateway</html>" }

Answers == [status_code : StatusCodes, text : Bodies]

\* res.json() of each body that is JSON; the call raises on any other body
JsonTable ==
    ("{\"pkcs7b64\":\"XYZ\"}" :> Dict({<<"pkcs7b64", Str("XYZ")>>}))
    @@ ("{}" :> Dict({}))
    @@ ("{\"pkcs7b64\":false}" :> Dict({<<"pkcs7b64", False>>}))
    @@ ("{\"pkcs7b64\":null}" :> Dict({<<"pkcs7b64", None>>}))
    @@ ("{\"pkcs7b64\":\"\"}" :> Dict({<<"pkcs7b64", Str("")>>}))
    @@ ("{\"pkcs7b64\":0}" :> Dict({<<"pkcs7b64", Zero>>}))

JsonOk(text) == text \in DOMAIN JsonTable
Json(text) == JsonTable[text]

----------------------------------------------------------------------------
(* The stage methods of the views, from the authority's answer on *)

\* the detail every stage passes to exceptions.ValidationError
ErrorDetail(err_msg) == Dict({<<"success", False>>, <<"err_msg", err_msg>>})

ValidationError(detail, code) == Raise("ValidationError", detail, code)
JSONDecodeError == Raise("JSONDecodeError", None, None)
ConnectionError == Raise("ConnectionError", None, None)

\* variant: any false-like pkcs7b64 is answered with the 406
SavePkcsView_timestamp_pkcs7_falsy(res) ==
    IF res.status_code # 200
    THEN ValidationError(ErrorDetail(Str(res.text)), PyInt(res.status_code))
    ELSE IF ~JsonOk(res.text) THEN JSONDecodeError
    ELSE LET data_json == Json(res.text)
             pkcs7b64 == Get(data_json, "pkcs7b64", False)
         IN  IF ~Truthy(pkcs7b64)
             THEN Return(Response(ErrorDetail(data_json), 406))
             ELSE Return(pkcs7b64)

\* variant: the extracted value is returned without the test for False
SavePkcsView_timestamp_pkcs7_untested(res) ==
    IF res.status_code # 200
    THEN ValidationError(ErrorDetail(Str(res.text)), PyInt(res.status_code))
    ELSE IF ~JsonOk(res.text) THEN JSONDecodeError
    ELSE Return(Get(Json(res.text), "pkcs7b64", False))

SavePkcsView_timestamp_pkcs7(res) ==
    IF res.status_code # 200
    THEN ValidationError(ErrorDetail(Str(res.text)), PyInt(res.status_code))
    ELSE IF ~JsonOk(res.text) THEN JSONDecodeError
    ELSE LET data_json == Json(res.text)
             pkcs7b64 == Get(data_json, "pkcs7b64", False)
         IN  IF pkcs7b64 = False
             THEN Return(Response(ErrorDetail(data_json), 406))
             ELSE Return(pkcs7b64)

\* variant: the rejection carries a fixed message instead of res.text
SavePkcsView_eimzo_verify_fixed_msg(res) ==
    IF res.status_code # 200
    THEN ValidationError(ErrorDetail(Str("verification failed")), PyInt(res.status_code))
    ELSE Return(None)

SavePkcsView_eimzo_verify(res) ==
    IF res.status_code # 200
    THEN ValidationError(ErrorDetail(Str(res.text)), PyInt(res.status_code))
    ELSE Return(None)

\* variant: the status code is not looked at
SavePkcsView_pkcs7_join_unchecked(res) ==
    IF ~JsonOk(res.text) THEN JSONDecodeError
    ELSE Return(Get(Json(res.text), "pkcs7b64", None))

SavePkcsView_pkcs7_join(res) ==
    IF res.status_code # 200
    THEN ValidationError(ErrorDetail(Str(res.text)), PyInt(res.status_code))
    ELSE IF ~JsonOk(res.text) THEN JSONDecodeError
    ELSE Return(Get(Json(res.text), "pkcs7b64", None))

PkcsVerify_eimzo_verify(res) ==
    IF res.status_code # 200
    THEN ValidationError(ErrorDetail(Str(res.text)), PyInt(res.status_code))
    ELSE IF ~JsonOk(res.text) THEN JSONDecodeError
    ELSE Return(Json(res.text))

----------------------------------------------------------------------------
(* Inbound requests *)

Alphabet == {"A", "B"}

RECURSIVE Texts(_)
\* the strings over Alphabet of length at most n
Texts(n) ==
    IF n = 0 THEN {""}
    ELSE LET shorter == Texts(n - 1)
         IN  shorter \cup {s \o c : s \in shorter, c \in Alphabet}

Fragments == {Str(s) : s \in Texts(MaxFragLen)}

\* the WSGI environ of a request: each key absent, empty or set
Environs ==
    { Dict(ip \cup peer \cup host) :
        ip \in {{}, {<<"HTTP_X_REAL_IP", Str("")>>}, {<<"HTTP_X_REAL_IP", Str("10.0.0.5")>>}},
        peer \in {{}, {<<"REMOTE_ADDR", Str("")>>}, {<<"REMOTE_ADDR", Str("192.168.1.1")>>}},
        host \in {{}, {<<"HTTP_HOST", Str("gw.example.uz")>>}} }

\* request.data of the requests each view is sent
VerifyBodies ==
    { Dict({}), Dict({<<"pkcs7b64", None>>}), Dict({<<"pkcs7b64", Str("")>>}),
      Dict({<<"pkcs7b64", Str("P7")>>}) }

ComposeBodies ==
    { Dict({<<"pkcs7_data_1", a>>, <<"pkcs7_data_2", b>>}) : a, b \in Fragments }

\* a DRF Request: META is the WSGI environ itself
Request(view, environ, data) ==
    [view |-> view, META |-> environ, environ |-> environ, data |-> data]

Requests ==
    {Request("PkcsVerify", e, d) : e \in Environs, d \in VerifyBodies}
    \cup {Request("Compose", e, d) : e \in Environs, d \in ComposeBodies}
    \cup {Request("SavePkcsView", e, Dict({})) : e \in Environs}
    \cup {Request("Challenge", e, Dict({})) : e \in Environs}

Pending == [k |-> "pending", v |-> None]

Reqs == DOMAIN pc

\* variant: one process-wide current request, that of the oldest handler running
ViewRequest_ambient(r) ==
    LET running == {q \in Reqs : pc[q] # "done"}
    IN  req[CHOOSE q \in running : \A p \in running : q <= p]

\* self.request of the view instance that handles r
ViewRequest(r) == req[r]

Send(r, call) == calls' = [calls EXCEPT ![r] = Append(@, call)]
Log(r, stage, res, result) ==
    stages' = [stages EXCEPT ![r] =
                 Append(@, [stage |-> stage, res |-> res, result |-> result])]
Finish(r, result) ==
    /\ outcome' = [outcome EXCEPT ![r] = result]
    /\ pc' = [pc EXCEPT ![r] = "done"]
Goto(r, label) ==
    /\ pc' = [pc EXCEPT ![r] = label]
    /\ UNCHANGED outcome

Waiting(r) == pc[r] \in {"join", "timestamp", "verify", "challenge"}

----------------------------------------------------------------------------
(* PkcsVerify *)

\* variant: the field is not tested before the call
PkcsVerify_post_unchecked(r) ==
    /\ pc[r] = "start"
    /\ req[r].view = "PkcsVerify"
    /\ Send(r, Api_eimzo_verify(api, Get(ViewRequest(r).data, "pkcs7b64", None),
                                ViewRequest(r)))
    /\ Goto(r, "verify")
    /\ UNCHANGED <<api, authority, req, stages>>

\* post, up to the requests.post inside eimzo_service_api.eimzo_verify
PkcsVerify_post(r) ==
    /\ pc[r] = "start"
    /\ req[r].view = "PkcsVerify"
    /\ LET pkcs7b64 == Get(ViewRequest(r).data, "pkcs7b64", None)
       IN  IF pkcs7b64 = None
           THEN /\ Finish(r, ValidationError(
                        ErrorDetail(Str("pkcs7b64 field is required")), None))
                /\ UNCHANGED calls
           ELSE /\ Send(r, Api_eimzo_verify(api, pkcs7b64, ViewRequest(r)))
                /\ Goto(r, "verify")
    /\ UNCHANGED <<api, authority, req, stages>>

\* post, from the authority's answer to its return
PkcsVerify_post_answered(r) ==
    /\ pc[r] = "verify"
    /\ req[r].view = "PkcsVerify"
    /\ \E res \in authority :
         LET json_resp == PkcsVerify_eimzo_verify(res)
         IN  /\ Log(r, "verify", res, json_resp)
             /\ IF json_resp.k = "raise"
                THEN Finish(r, json_resp)
                ELSE Finish(r, Return(Response(json_resp.v, 200)))
    /\ UNCHANGED <<api, authority, req, calls>>

----------------------------------------------------------------------------
(* SavePkcsView *)

\* post as the source has it: the body is `pass`
SavePkcsView_post(r) ==
    /\ pc[r] = "start"
    /\ req[r].view = "SavePkcsView"
    /\ Finish(r, Return(None))
    /\ UNCHANGED <<api, authority, req, calls, stages>>

\* The compose endpoint the stage methods are written for: Join, then
\* Timestamp on the joined envelope, then Verify on the stamped one.
Compose_post(r) ==
    /\ pc[r] = "start"
    /\ req[r].view = "Compose"
    /\ LET data == ViewRequest(r).data
       IN  Send(r, Api_pkcs7_join(api, Get(data, "pkcs7_data_1", None),
                                  Get(data, "pkcs7_data_2", None), ViewRequest(r)))
    /\ Goto(r, "join")
    /\ UNCHANGED <<api, authority, req, stages>>

Compose_joined(r) ==
    /\ pc[r] = "join"
    /\ \E res \in authority :
         LET joined == SavePkcsView_pkcs7_join(res)
         IN  /\ Log(r, "join", res, joined)
             /\ IF joined.k = "raise"
                THEN Finish(r, joined) /\ UNCHANGED calls
                ELSE /\ Send(r, Api_timestamp_pkcs7(api, joined.v, ViewRequest(r)))
                     /\ Goto(r, "timestamp")
    /\ UNCHANGED <<api, authority, req>>

Compose_stamped(r) ==
    /\ pc[r] = "timestamp"
    /\ \E res \in authority :
         LET stamped == SavePkcsView_timestamp_pkcs7(res)
         IN  /\ Log(r, "timestamp", res, stamped)
             /\ IF stamped.k = "raise" \/ stamped.v.t = "Response"
                THEN Finish(r, stamped) /\ UNCHANGED calls
                ELSE /\ Send(r, Api_eimzo_verify(api, stamped.v, ViewRequest(r)))
                     /\ Goto(r, "verify")
    /\ UNCHANGED <<api, authority, req>>

Compose_verified(r) ==
    /\ pc[r] = "verify"
    /\ req[r].view = "Compose"
    /\ \E res \in authority :
         LET verified == SavePkcsView_eimzo_verify(res)
         IN  /\ Log(r, "verify", res, verified)
             /\ IF verified.k = "raise"
                THEN Finish(r, verified)
                ELSE Finish(r, Return(stages[r][2].result.v))
    /\ UNCHANGED <<api, authority, req, calls>>

----------------------------------------------------------------------------
(* The challenge pass-through *)

Challenge_get(r) ==
    /\ pc[r] = "start"
    /\ req[r].view = "Challenge"
    /\ Send(r, eimzo_challenge(api, ViewRequest(r)))
    /\ Goto(r, "challenge")
    /\ UNCHANGED <<api, authority, req, stages>>

Challenge_answered(r) ==
    /\ pc[r] = "challenge"
    /\ \E res \in authority :
         /\ Log(r, "challenge", res, Return(Str(res.text)))
         /\ Finish(r, Return(Response(Str(res.text), res.status_code)))
    /\ UNCHANGED <<api, authority, req, calls>>

----------------------------------------------------------------------------
(* requests.get / requests.post raising instead of returning: no handler *)
(* catches it, so it ends the request.                                     *)
TransportFailure(r) ==
    /\ Waiting(r)
    /\ Finish(r, ConnectionError)
    /\ UNCHANGED <<api, authority, req, calls, stages>>

----------------------------------------------------------------------------
(* Specifications *)

Handle(r) ==
    \/ PkcsVerify_post(r)
    \/ PkcsVerify_post_answered(r)
    \/ SavePkcsView_post(r)
    \/ Compose_post(r)
    \/ Compose_joined(r)
    \/ Compose_stamped(r)
    \/ Compose_verified(r)
    \/ Challenge_get(r)
    \/ Challenge_answered(r)
    \/ TransportFailure(r)

Next == \E r \in Reqs : Handle(r)

InitFor(ids, requests, answers) ==
    /\ api = EimzoServiceApi
    /\ authority = answers
    /\ req \in [ids -> requests]
    /\ pc = [r \in ids |-> "start"]
    /\ calls = [r \in ids |-> <<>>]
    /\ stages = [r \in ids |-> <<>>]
    /\ outcome = [r \in ids |-> Pending]

\* one inbound request, every input and every answer of the authority
Init == InitFor({1}, Requests, Answers)

Spec == Init /\ [][Next]_vars

\* several inbound requests in flight at once, from two callers, against an
\* authority that accepts, answers without an envelope, or rejects
ConcEnvirons ==
    { Dict({<<"HTTP_X_REAL_IP", Str("10.0.0.5")>>, <<"REMOTE_ADDR", Str("192.168.1.1")>>,
            <<"HTTP_HOST", Str("gw.example.uz")>>}),
      Dict({<<"REMOTE_ADDR", Str("192.168.1.2")>>}) }

ConcRequests ==
    {Request("PkcsVerify", e, d) : e \in ConcEnvirons,
                                   d \in {Dict({}), Dict({<<"pkcs7b64", Str("P7")>>})}}
    \cup {Request("Compose", e, Dict({<<"pkcs7_data_1", Str("A")>>,
                                      <<"pkcs7_data_2", Str("B")>>})) : e \in ConcEnvirons}
    \cup {Request("SavePkcsView", e, Dict({})) : e \in ConcEnvirons}
    \cup {Request("Challenge", e, Dict({})) : e \in ConcEnvirons}

ConcAnswers ==
    { [status_code |-> 200, text |-> "{\"pkcs7b64\":\"XYZ\"}"],
      [status_code |-> 200, text |-> "{}"],
      [status_code |-> 500, text |-> "<html>Bad Gateway</html>"] }

InitConc == InitFor(1 .. NumRequests, ConcRequests, ConcAnswers)

SpecConc == InitConc /\ [][Next]_vars

----------------------------------------------------------------------------
(* Properties *)

Entries(r) == {stages[r][i] : i \in 1 .. Len(stages[r])}
Sent(r) == {calls[r][i] : i \in 1 .. Len(calls[r])}
Rejected(e) == e.res.status_code # 200
Parsed(e) == e.res.status_code = 200 /\ JsonOk(e.res.text)
IsAmbiguous(result, data_json) ==
    /\ result.k = "return"
    /\ result.v.t = "Response"
    /\ result.v.v.status = 406
    /\ result.v.v.data = Dict({<<"success", False>>, <<"err_msg", data_json>>})

\* C1: a PkcsVerify request whose body has no pkcs7b64 field makes no call to
\* the authority at any point, and ends with the ValidationError
\* {success: False, err_msg: "pkcs7b64 field is required"}.
C1_MissingFieldNoCall ==
    \A r \in Reqs :
        (req[r].view = "PkcsVerify" /\ ~HasKey(req[r].data, "pkcs7b64")) =>
            /\ calls[r] = <<>>
            /\ stages[r] = <<>>
            /\ pc[r] \in {"start", "done"}
            /\ pc[r] = "done" =>
                 /\ outcome[r].k = "raise"
                 /\ outcome[r].v.exc = "ValidationError"
                 /\ outcome[r].v.detail =
                      Dict({<<"success", False>>,
                            <<"err_msg", Str("pkcs7b64 field is required")>>})

C1_Witness ==
    \E r \in Reqs :
        /\ req[r].view = "PkcsVerify"
        /\ req[r].data = Dict({})
        /\ pc[r] = "done"
        /\ outcome[r].k = "raise"

\* C2 as stated: whenever the timestamp stage gets 200 and the pkcs7b64 field of
\* the parsed body is absent or false-like (missing, false, null, "", 0), the
\* stage ends in the 406 outcome.
C2_FalseLikeIsAmbiguous ==
    \A r \in Reqs : \A e \in Entries(r) :
        (/\ e.stage = "timestamp"
         /\ Parsed(e)
         /\ ~Truthy(Get(Json(e.res.text), "pkcs7b64", None))) =>
            IsAmbiguous(e.result, Json(e.res.text))

\* C2 as amended: whenever the timestamp stage gets 200 and the pkcs7b64 field of
\* the parsed body is absent or is false, the stage ends in the 406 outcome,
\* which is neither an envelope nor a raised rejection; a field that is present
\* with any other value (null, "", 0 included) is returned as the stage's result.
C2_AbsentOrFalseIsAmbiguous ==
    \A r \in Reqs : \A e \in Entries(r) :
        (e.stage = "timestamp" /\ Parsed(e)) =>
            LET data_json == Json(e.res.text)
            IN  IF ~HasKey(data_json, "pkcs7b64") \/ Get(data_json, "pkcs7b64", None) = False
                THEN IsAmbiguous(e.result, data_json)
                ELSE e.result = Return(Get(data_json, "pkcs7b64", None))

C2_Witness ==
    \E r \in Reqs : \E e \in Entries(r) :
        /\ e.stage = "timestamp"
        /\ e.res = [status_code |-> 200, text |-> "{}"]
        /\ IsAmbiguous(e.result, Dict({}))

C5_VerifyReturnsParsedResult ==
    \A r \in Reqs : \A e \in Entries(r) :
        (e.stage = "verify" /\ Parsed(e)) =>
            /\ e.result = Return(Json(e.res.text))
            /\ req[r].view = "PkcsVerify" =>
                 outcome[r] = Return(Response(Json(e.res.text), 200))

\* C6 as stated: every join, timestamp or verify stage that got a status other
\* than 200 raises a failure that carries the stage's name and the raw body.
C6_RejectionNamesStage ==
    \A r \in Reqs : \A e \in Entries(r) :
        (e.stage \in {"join", "timestamp", "verify"} /\ Rejected(e)) =>
            /\ e.result.k = "raise"
            /\ Get(e.result.v.detail, "err_msg", None) = Str(e.res.text)
            /\ \/ e.result.v.code = Str(e.stage)
               \/ \E p \in e.result.v.detail.v : p[2] = Str(e.stage)

\* C6 as amended: every join, timestamp or verify stage that got a status other
\* than 200 raises a ValidationError whose detail is exactly {success: False,
\* err_msg: the raw body unaltered} and whose code is the status; the failure
\* does not name the stage.
C6_RejectionCarriesRawBody ==
    \A r \in Reqs : \A e \in Entries(r) :
        (e.stage \in {"join", "timestamp", "verify"} /\ Rejected(e)) =>
            /\ e.result.k = "raise"
            /\ e.result.v.exc = "ValidationError"
            /\ e.result.v.detail =
                 Dict({<<"success", False>>, <<"err_msg", Str(e.res.text)>>})
            /\ e.result.v.code = PyInt(e.res.status_code)
            /\ outcome[r] = e.result

C6_Witness ==
    \E r \in Reqs : \E e \in Entries(r) :
        /\ e.stage = "verify"
        /\ e.res = [status_code |-> 500, text |-> "<html>Bad Gateway</html>"]
        /\ e.result.k = "raise"
        /\ req[r].view = "Compose"

\* C7: every join call carries as its body the first fragment, then one "|",
\* then the second fragment, in the order the caller gave them, also when the two
\* fragments are equal.
C7_JoinPayloadInOrder ==
    \A r \in Reqs : \A c \in Sent(r) :
        c.url = JOIN_URL =>
            LET a == Get(req[r].data, "pkcs7_data_1", None).v
                b == Get(req[r].data, "pkcs7_data_2", None).v
                sent == c.data.v
            IN  /\ c.data.t = "str"
                /\ Len(sent) = Len(a) + 1 + Len(b)
                /\ SubSeq(sent, 1, Len(a)) = a
                /\ SubSeq(sent, Len(a) + 1, Len(a) + 1) = "|"
                /\ SubSeq(sent, Len(a) + 2, Len(sent)) = b

C7_Witness ==
    \E r \in Reqs : \E c \in Sent(r) :
        /\ c.url = JOIN_URL
        /\ Get(req[r].data, "pkcs7_data_1", None) = Str("A")
        /\ Get(req[r].data, "pkcs7_data_2", None) = Str("B")
        /\ c.data = Str("A|B")

\* the values a key of the WSGI environ holds that are non-empty strings
NonEmpty(request, key) ==
    {p[2] : p \in {q \in request.META.v : q[1] = key /\ q[2].t = "str" /\ q[2].v # ""}}

\* C8: the X-Real-IP value resolved for a request is the forwarded source IP
\* when that is present and non-empty, else the peer address when that is present
\* and non-empty, else "Unknown"; it is always a string.
C8_ResolvedSourceIp ==
    \A r \in Reqs : \A c \in Sent(r) :
        LET forwarded == NonEmpty(req[r], "HTTP_X_REAL_IP")
            peer == NonEmpty(req[r], "REMOTE_ADDR")
            ip == c.headers["X-Real-IP"]
        IN  /\ ip.t = "str"
            /\ forwarded # {} => ip \in forwarded
            /\ (forwarded = {} /\ peer # {}) => ip \in peer
            /\ (forwarded = {} /\ peer = {}) => ip = Str("Unknown")

C8_Witness ==
    \E r \in Reqs : \E c \in Sent(r) :
        /\ NonEmpty(req[r], "HTTP_X_REAL_IP") = {Str("10.0.0.5")}
        /\ NonEmpty(req[r], "REMOTE_ADDR") = {Str("192.168.1.1")}
        /\ c.headers["X-Real-IP"] = Str("10.0.0.5")

AnswersTo(r) == [i \in 1 .. Len(stages[r]) |-> stages[r][i].res]

Alone(sent, result) == [calls |-> sent, outcome |-> result]

\* a request handled with no other request in flight: the calls it makes and
\* what it ends with, given the answers it got so far
AlonePkcsVerify(request, ans) ==
    LET pkcs7b64 == Get(request.data, "pkcs7b64", None)
        call == Api_eimzo_verify(EimzoServiceApi, pkcs7b64, request)
        json_resp == PkcsVerify_eimzo_verify(ans[1])
    IN  IF pkcs7b64 = None
        THEN Alone(<<>>, ValidationError(
                 ErrorDetail(Str("pkcs7b64 field is required")), None))
        ELSE IF ans = <<>> THEN Alone(<<call>>, Pending)
        ELSE IF json_resp.k = "raise" THEN Alone(<<call>>, json_resp)
        ELSE Alone(<<call>>, Return(Response(json_resp.v, 200)))

AloneCompose(request, ans) ==
    LET c1 == Api_pkcs7_join(EimzoServiceApi, Get(request.data, "pkcs7_data_1", None),
                             Get(request.data, "pkcs7_data_2", None), request)
        joined == SavePkcsView_pkcs7_join(ans[1])
        c2 == Api_timestamp_pkcs7(EimzoServiceApi, joined.v, request)
        stamped == SavePkcsView_timestamp_pkcs7(ans[2])
        c3 == Api_eimzo_verify(EimzoServiceApi, stamped.v, request)
        verified == SavePkcsView_eimzo_verify(ans[3])
    IN  IF Len(ans) = 0 THEN Alone(<<c1>>, Pending)
        ELSE IF joined.k = "raise" THEN Alone(<<c1>>, joined)
        ELSE IF Len(ans) = 1 THEN Alone(<<c1, c2>>, Pending)
        ELSE IF stamped.k = "raise" \/ stamped.v.t = "Response"
             THEN Alone(<<c1, c2>>, stamped)
        ELSE IF Len(ans) = 2 THEN Alone(<<c1, c2, c3>>, Pending)
        ELSE IF verified.k = "raise" THEN Alone(<<c1, c2, c3>>, verified)
        ELSE Alone(<<c1, c2, c3>>, Return(stamped.v))

AloneChallenge(request, ans) ==
    LET call == eimzo_challenge(EimzoServiceApi, request)
    IN  IF ans = <<>> THEN Alone(<<call>>, Pending)
        ELSE Alone(<<call>>, Return(Response(Str(ans[1].text), ans[1].status_code)))

RunAlone(request, ans) ==
    CASE request.view = "PkcsVerify" -> AlonePkcsVerify(request, ans)
      [] request.view = "Compose" -> AloneCompose(request, ans)
      [] request.view = "Challenge" -> AloneChallenge(request, ans)
      [] request.view = "SavePkcsView" -> Alone(<<>>, Return(None))

\* C10: with several requests in flight, the URLs of the module-level client
\* never change; what a request has sent to the authority and what it ends with
\* are what it sends and ends with when handled alone with the same answers (or
\* the transport's own failure); and a request that is not finished can always
\* take its next step, whatever the other requests are waiting for.
C10_RequestsIndependent ==
    /\ api = EimzoServiceApi
    /\ \A r \in Reqs :
         LET alone == RunAlone(req[r], AnswersTo(r))
         IN  /\ pc[r] = "start" => calls[r] = <<>> /\ outcome[r] = Pending
             /\ pc[r] # "start" =>
                  /\ calls[r] = alone.calls
                  /\ outcome[r] \in {alone.outcome, ConnectionError}
                  /\ pc[r] = "done" <=> outcome[r] # Pending
             /\ pc[r] # "done" => ENABLED Handle(r)

C10_Witness ==
    \E r, q \in Reqs :
        /\ r < q
        /\ req[r].META # req[q].META
        /\ pc[r] = "join"
        /\ calls[q] # <<>>
        /\ pc[q] = "done"
        /\ outcome[q].k = "return"

====
